---- MODULE Spec2Model ----
(***************************************************************************)
(* Model of paduagroup/hmix: hmix.py (Redlich-Kister fit of titration      *)
(* calorimetry data) and itcfile.py (conversion of ITC run files).         *)
(*                                                                         *)
(* Python floats are modelled as exact rationals <<num, den>> in lowest    *)
(* terms with den > 0, so every equality below is an equality in exact     *)
(* arithmetic; rounding of IEEE doubles is outside the model.              *)
(***************************************************************************)
EXTENDS Integers, Sequences, FiniteSets, TLC

VARIABLES
    \* ---- calls of the Redlich-Kister evaluators (hmix.py 40-83) ----
    fa,        \* coefficient vector a, a function 0..4 -> rational
    fx2,       \* mole fraction of component 2
    vHerk2,    \* value returned by herk2(x2, a), NoVal before the call
    vHerk1,    \* value returned by herk1(1 - x2, a)
    vH2rk,     \* value returned by h2rk(x2, a)
    vH1rk,     \* value returned by h1rk(1 - x2, a)
    \* ---- calls of the heat predictor (hmix.py 86-105) ----
    qa,        \* coefficient vector a
    qpt,       \* titration point pt
    qres,      \* outcome of qcalc(pt, a)
    \* ---- one run of hmix.py main (hmix.py 127-261) ----
    pc,        \* position of main
    degree,    \* args.degree
    infile,    \* the lines of the file args.itcfile
    opened,    \* TRUE once readitc has opened args.itcfile
    itc,       \* the list of points returned by readitc
    main_x2,   \* the array x2
    main_q,    \* the array q
    vary,      \* the list vary
    params,    \* the values of params a0..a4, the optimizer's working vector
    resid,     \* the residual vector qfit returned at the start values
    main_a,    \* the list a read from result.params
    qc,        \* the array qc
    exps,      \* the lists x1exp, h1exp, x2exp, h2exp
    curves,    \* the arrays x2rk, h1fit, h2fit, he
    written,   \* the output files written so far (suffix of the name)
    stdout,    \* the messages printed
    err,       \* the exception that ended the run, "none" otherwise
    \* ---- one call of itcfile.py readitc (itcfile.py 8-53) ----
    it_pc,     \* position of readitc
    it_file,   \* the file: its lines 2 and 3 and the lines after them
    it_pos,    \* number of lines read after line 3
    it_i,      \* the counter i
    it_amp,    \* the running ampoule amounts n1c, n2c
    it_dis,    \* x1d, x2d, rhod, vd read from line 3
    it_itc     \* the list itc

rkvars == <<fa, fx2, vHerk2, vHerk1, vH2rk, vH1rk>>
qvars == <<qa, qpt, qres>>
mainvars == <<pc, degree, infile, opened, itc, main_x2, main_q, vary, params,
              resid, main_a, qc, exps, curves, written, stdout, err>>
itvars == <<it_pc, it_file, it_pos, it_i, it_amp, it_dis, it_itc>>
vars == <<rkvars, qvars, mainvars, itvars>>

----------------------------------------------------------------------------
(* Bounds of the model *)

\* mole fractions are drawn from k/XDen, k in 0..XDen
XDen == 4
\* an input file of hmix.py has up to MaxLines lines before its last four
MaxLines == 1
\* an input file of itcfile.py has up to MaxBody lines after its line 3
MaxBody == 3
\* points of the composition grid of the fitted curves; the source fixes
\* nx = 101 (hmix.py 234), the model keeps np.linspace(0.0, 1.0, nx) and
\* takes a coarser grid, whose nodes are (i-1)/(nx-1)
nx == 5

----------------------------------------------------------------------------
(* Float arithmetic, exact *)

Abs(n) == IF n < 0 THEN -n ELSE n

RECURSIVE GCD(_, _)
GCD(m, n) == IF n = 0 THEN m ELSE GCD(n, m % n)

\* the float n/d (d # 0), in lowest terms
Rat(n, d) ==
    LET g == GCD(Abs(n), Abs(d))
        s == IF d < 0 THEN -1 ELSE 1
    IN  <<(s * n) \div g, (s * d) \div g>>

Zero == <<0, 1>>
One == <<1, 1>>
Two == <<2, 1>>
\* marks a result that has not been computed
NoVal == <<0, 0>>

\* p + q, over the least common denominator
RAdd(p, q) ==
    LET pp == p
        qq == q
    IN  IF pp[2] = 1 /\ qq[2] = 1 THEN <<pp[1] + qq[1], 1>>
        ELSE IF pp[2] = qq[2] THEN Rat(pp[1] + qq[1], pp[2])
        ELSE LET g == GCD(pp[2], qq[2])
             IN  Rat(pp[1] * (qq[2] \div g) + qq[1] * (pp[2] \div g),
                     pp[2] * (qq[2] \div g))

RNeg(p) == <<-p[1], p[2]>>

RSub(p, q) == RAdd(p, RNeg(q))

\* p * q; p and q are in lowest terms, so cancelling across gives the
\* product in lowest terms
RMul(p, q) ==
    LET pp == p
        qq == q
    IN  IF pp[2] = 1 /\ qq[2] = 1 THEN <<pp[1] * qq[1], 1>>
        ELSE IF pp[1] = 0 \/ qq[1] = 0 THEN <<0, 1>>
        ELSE LET g1 == IF qq[2] = 1 THEN 1 ELSE GCD(Abs(pp[1]), qq[2])
                 g2 == IF pp[2] = 1 THEN 1 ELSE GCD(Abs(qq[1]), pp[2])
             IN  <<(pp[1] \div g1) * (qq[1] \div g2),
                   (pp[2] \div g2) * (qq[2] \div g1)>>

\* p / q for q # 0 (Python raises ZeroDivisionError for q = 0: callers test)
RDiv(p, q) == RMul(p, Rat(q[2], q[1]))

RIsZero(p) == p[1] = 0
RPos(p) == p[1] > 0

\* x ** i for an int i >= 0; Python gives 1.0 for i = 0, also when x = 0.0
RECURSIVE RPow(_, _)
RPow(x, i) == IF i = 0 THEN One ELSE RMul(RPow(x, i - 1), x)

\* the float of an int
Flt(n) == <<n, 1>>

----------------------------------------------------------------------------
(* Redlich-Kister evaluators, hmix.py 40-83 *)

\* len(a)
Len_a(a) == Cardinality(DOMAIN a)

\* herk2, the loop of lines 45-46: he after the iterations i = 0..n-1
RECURSIVE herk2_sum(_, _, _)
herk2_sum(x2, a, n) ==
    IF n = 0 THEN Zero
    ELSE RAdd(herk2_sum(x2, a, n - 1),
              RMul(a[n - 1], RPow(RSub(One, RMul(Two, x2)), n - 1)))

herk2(x2, a) == RMul(herk2_sum(x2, a, Len_a(a)), RMul(RSub(One, x2), x2))

\* herk1, the loop of lines 55-56
RECURSIVE herk1_sum(_, _, _)
herk1_sum(x1, a, n) ==
    IF n = 0 THEN Zero
    ELSE RAdd(herk1_sum(x1, a, n - 1),
              RMul(a[n - 1], RPow(RSub(RMul(Two, x1), One), n - 1)))

herk1_flipped(x1, a) == RMul(herk2_sum(x1, a, Len_a(a)), RMul(x1, RSub(One, x1)))

herk1(x1, a) == RMul(herk1_sum(x1, a, Len_a(a)), RMul(x1, RSub(One, x1)))

\* h2rk, lines 66-68: h2_a after the iterations i = 0..n-1
RECURSIVE h2rk_a(_, _, _)
h2rk_a(x2, a, n) ==
    IF n = 0 THEN Zero
    ELSE IF n - 1 > 0
         THEN RAdd(h2rk_a(x2, a, n - 1),
                   RMul(RMul(RMul(Flt(-2), Flt(n - 1)), a[n - 1]),
                        RPow(RSub(One, RMul(Two, x2)), n - 2)))
         ELSE h2rk_a(x2, a, n - 1)

\* h2rk, line 69: h2_b after the iterations i = 0..n-1
RECURSIVE h2rk_b(_, _, _)
h2rk_b(x2, a, n) ==
    IF n = 0 THEN Zero
    ELSE RAdd(h2rk_b(x2, a, n - 1),
              RMul(a[n - 1], RPow(RSub(One, RMul(Two, x2)), n - 1)))

h2rk_plus(x2, a) ==
    RMul(RPow(RSub(x2, One), 2),
         RAdd(RMul(x2, RNeg(h2rk_a(x2, a, Len_a(a)))), h2rk_b(x2, a, Len_a(a))))

h2rk(x2, a) ==
    RMul(RPow(RSub(x2, One), 2),
         RAdd(RMul(x2, h2rk_a(x2, a, Len_a(a))), h2rk_b(x2, a, Len_a(a))))

\* h1rk, lines 78-80
RECURSIVE h1rk_a(_, _, _)
h1rk_a(x1, a, n) ==
    IF n = 0 THEN Zero
    ELSE IF n - 1 > 0
         THEN RAdd(h1rk_a(x1, a, n - 1),
                   RMul(RMul(RMul(Two, Flt(n - 1)), a[n - 1]),
                        RPow(RSub(RMul(Two, x1), One), n - 2)))
         ELSE h1rk_a(x1, a, n - 1)

\* h1rk, line 81
RECURSIVE h1rk_b(_, _, _)
h1rk_b(x1, a, n) ==
    IF n = 0 THEN Zero
    ELSE RAdd(h1rk_b(x1, a, n - 1),
              RMul(a[n - 1], RPow(RSub(RMul(Two, x1), One), n - 1)))

h1rk(x1, a) ==
    RMul(RPow(RSub(One, x1), 2),
         RAdd(RMul(x1, h1rk_a(x1, a, Len_a(a))), h1rk_b(x1, a, Len_a(a))))

----------------------------------------------------------------------------
(* Heat predictor, hmix.py 86-105 *)

\* the float divisions of lines 94, 96 and 98 raise ZeroDivisionError when
\* their denominator is 0.0
qcalc_raises(pt) ==
    \/ RIsZero(RAdd(pt.n1c, pt.n2c))
    \/ RIsZero(RAdd(RAdd(RAdd(pt.n1c, pt.n1d), pt.n2c), pt.n2d))
    \/ RIsZero(RAdd(pt.n1d, pt.n2d))

x2ci(pt) == RDiv(pt.n2c, RAdd(pt.n1c, pt.n2c))
x1ci(pt) == RSub(One, x2ci(pt))
x2cf(pt) ==
    RDiv(RAdd(pt.n2c, pt.n2d), RAdd(RAdd(RAdd(pt.n1c, pt.n1d), pt.n2c), pt.n2d))
x1cf(pt) == RSub(One, x2cf(pt))
\* the dispenser fraction taken of the wrong component
x2d_of_n1d(pt) == RDiv(pt.n1d, RAdd(pt.n1d, pt.n2d))

x2d(pt) == RDiv(pt.n2d, RAdd(pt.n1d, pt.n2d))
x1d(pt) == RSub(One, x2d(pt))

\* the four terms of the sum of lines 101-104 (h1rk(x1cf, a) and
\* h2rk(x2cf, a), which the source evaluates twice each, are pure)
qterms(pt, a) ==
    LET h1cf == h1rk(x1cf(pt), a)
        h2cf == h2rk(x2cf(pt), a)
    IN  << RMul(pt.n1d, RSub(h1cf, h1rk(x1d(pt), a))),
           RMul(pt.n1c, RSub(h1cf, h1rk(x1ci(pt), a))),
           RMul(pt.n2d, RSub(h2cf, h2rk(x2d(pt), a))),
           RMul(pt.n2c, RSub(h2cf, h2rk(x2ci(pt), a))) >>

\* the ampoule's h1 term left out of the balance
qsum_no_h1c(t) == RAdd(RAdd(t[1], t[3]), t[4])

qsum(t) == RAdd(RAdd(RAdd(t[1], t[2]), t[3]), t[4])

\* the return value of qcalc(pt, a) when no division raises
qcalc(pt, a) == qsum(qterms(pt, a))

----------------------------------------------------------------------------
(* hmix.py main, lines 127-261, and what it calls *)

\* the factor 1.0e-3 of lines 30-31
Milli == Rat(1, 1000)

\* readitc, hmix.py 12-34. A line of the file is [comment, tok]: comment is
\* line.startswith('#'), tok the five numbers of a data line as written
\* (n1c/mol n2c/mol n1d/mmol n2d/mmol Q/J). The result is the list itc after
\* the first n lines.
RECURSIVE readitc(_, _)
readitc(lines, n) ==
    IF n = 0 THEN <<>>
    ELSE IF lines[n].comment
         THEN readitc(lines, n - 1)
         ELSE Append(readitc(lines, n - 1),
                     [n1c |-> Flt(lines[n].tok[1]),
                      n2c |-> Flt(lines[n].tok[2]),
                      n1d |-> RMul(Flt(lines[n].tok[3]), Milli),
                      n2d |-> RMul(Flt(lines[n].tok[4]), Milli),
                      q |-> Flt(lines[n].tok[5])])

\* line 142 with a bound too many
degree_rejected_above5(d) == d < 0 \/ d > 5

\* the test of line 142
degree_rejected(d) == d < 0 \/ d > 4

\* lines 164-166 with the loop starting one index late
vary_from_next(d) == [i \in 0..4 |-> ~(i >= d + 2 /\ i < 5)]

\* the list vary after lines 164-166
vary_of(d) == [i \in 0..4 |-> ~(i >= d + 1 /\ i < 5)]

\* qfit, hmix.py 109-123: it raises when a call of qcalc does
qfit_raises(ict) == \E i \in 1..Len(ict) : qcalc_raises(ict[i])

\* the vector qc - q that qfit returns
qfit(p, ict, qobs) ==
    [i \in 1..Len(qobs) |-> RSub(qcalc(ict[i], [k \in 0..4 |-> p[k]]), qobs[i])]

\* the number of parameters minimize varies
nfree(v) == Cardinality({i \in 0..4 : v[i]})

\* the tests of lines 212 and 215, the first without its second half
is_h1_sample_any_n2d(pt) == RPos(pt.n1d)

is_h1_sample(pt) == RPos(pt.n1d) /\ RIsZero(pt.n2d)
is_h2_sample(pt) == RPos(pt.n2d) /\ RIsZero(pt.n1d)

\* lines 206-217: the lists x1exp, h1exp, x2exp, h2exp after the first n
\* points
RECURSIVE exp_lists(_, _, _)
exp_lists(pts, xs, n) ==
    IF n = 0 THEN [x1exp |-> <<>>, h1exp |-> <<>>, x2exp |-> <<>>, h2exp |-> <<>>]
    ELSE LET e == exp_lists(pts, xs, n - 1)
             pt == pts[n]
             e1 == IF is_h1_sample(pt)
                   THEN [e EXCEPT !.x1exp = Append(@, xs[n]),
                                  !.h1exp = Append(@, RDiv(pt.q, pt.n1d))]
                   ELSE e
         IN  IF is_h2_sample(pt)
             THEN [e1 EXCEPT !.x2exp = Append(@, xs[n]),
                             !.h2exp = Append(@, RDiv(pt.q, pt.n2d))]
             ELSE e1

\* np.linspace(0.0, 1.0, n) without its end point
linspace_open(n) == [i \in 1..n |-> Rat(i - 1, n)]

\* np.linspace(0.0, 1.0, n), line 235 (Python index i is index i + 1 here)
linspace01(n) == [i \in 1..n |-> Rat(i - 1, n - 1)]

----------------------------------------------------------------------------
(* itcfile.py readitc, lines 8-53 *)

\* the factor 1.0e-6 of lines 41-42
Micro == Rat(1, 1000000)

\* str.startswith, on words given as sequences of characters
StartsWith(w, pre) == Len(w) >= Len(pre) /\ SubSeq(w, 1, Len(pre)) = pre

\* the test of line 15 on the tokens of line 2, [word, nums]
amp_ok(tok) == StartsWith(tok.word, <<"a", "m", "p">>) /\ 1 + Len(tok.nums) >= 3

\* the test of line 23 on the tokens of line 3
dis_ok(tok) == StartsWith(tok.word, <<"d", "i", "s">>) /\ 1 + Len(tok.nums) >= 5

\* lines 41-42 without the counter
dispensed_once(i, xd, rhod, vd) == RMul(RMul(RMul(xd, rhod), vd), Micro)

\* lines 41-42: i * xd * rhod * vd * 1.0e-6
dispensed(i, xd, rhod, vd) == RMul(RMul(RMul(RMul(Flt(i), xd), rhod), vd), Micro)

----------------------------------------------------------------------------
(* The variables of the parts a specification leaves alone *)

\* the variables of the evaluators' calls, at rest
IdleRK ==
    /\ fa = [i \in 0..4 |-> Zero]
    /\ fx2 = Zero
    /\ vHerk2 = NoVal
    /\ vHerk1 = NoVal
    /\ vH2rk = NoVal
    /\ vH1rk = NoVal

\* the variables of the heat predictor's calls, at rest
IdleQ ==
    /\ qa = [i \in 0..4 |-> Zero]
    /\ qpt = [n1c |-> Zero, n2c |-> Zero, n1d |-> Zero, n2d |-> Zero, q |-> Zero]
    /\ qres = [err |-> "idle", q |-> NoVal, terms |-> <<>>]

\* the variables of a run of main, at rest
IdleMain ==
    /\ pc = "idle"
    /\ degree = 0
    /\ infile = <<>>
    /\ opened = FALSE
    /\ itc = <<>>
    /\ main_x2 = <<>>
    /\ main_q = <<>>
    /\ vary = <<>>
    /\ params = <<>>
    /\ resid = <<>>
    /\ main_a = <<>>
    /\ qc = <<>>
    /\ exps = <<>>
    /\ curves = <<>>
    /\ written = {}
    /\ stdout = <<>>
    /\ err = "none"

\* the variables of a call of itcfile.py readitc, at rest
IdleItc ==
    /\ it_pc = "idle"
    /\ it_file = <<>>
    /\ it_pos = 0
    /\ it_i = 0
    /\ it_amp = <<>>
    /\ it_dis = <<>>
    /\ it_itc = <<>>

----------------------------------------------------------------------------
(* Calls of the evaluators on bounded inputs *)

\* values a coefficient is drawn from
CoefVals == {-1, 0, 2}
CoefVectors == [0..4 -> {Flt(v) : v \in CoefVals}]
MoleFractions == {Rat(k, XDen) : k \in 0..XDen}

InitRK ==
    /\ IdleQ
    /\ IdleMain
    /\ IdleItc
    /\ fa \in CoefVectors
    /\ fx2 \in MoleFractions
    /\ vHerk2 = NoVal
    /\ vHerk1 = NoVal
    /\ vH2rk = NoVal
    /\ vH1rk = NoVal

CallHerk2 ==
    /\ vHerk2 = NoVal
    /\ vHerk2' = herk2(fx2, fa)
    /\ UNCHANGED <<fa, fx2, vHerk1, vH2rk, vH1rk, qvars, mainvars, itvars>>

CallHerk1 ==
    /\ vHerk1 = NoVal
    /\ vHerk1' = herk1(RSub(One, fx2), fa)
    /\ UNCHANGED <<fa, fx2, vHerk2, vH2rk, vH1rk, qvars, mainvars, itvars>>

CallH2rk ==
    /\ vH2rk = NoVal
    /\ vH2rk' = h2rk(fx2, fa)
    /\ UNCHANGED <<fa, fx2, vHerk2, vHerk1, vH1rk, qvars, mainvars, itvars>>

CallH1rk ==
    /\ vH1rk = NoVal
    /\ vH1rk' = h1rk(RSub(One, fx2), fa)
    /\ UNCHANGED <<fa, fx2, vHerk2, vHerk1, vH2rk, qvars, mainvars, itvars>>

NextRK == CallHerk2 \/ CallHerk1 \/ CallH2rk \/ CallH1rk

SpecRK == InitRK /\ [][NextRK]_vars

----------------------------------------------------------------------------
(* Calls of the heat predictor on bounded inputs *)

\* amounts (mol) a titration point's fields are drawn from
AmountVals == {0, 1}
Points ==
    [n1c : {Flt(v) : v \in AmountVals}, n2c : {Flt(v) : v \in AmountVals},
     n1d : {Flt(v) : v \in AmountVals}, n2d : {Flt(v) : v \in AmountVals},
     q : {Zero}]

InitQ ==
    /\ IdleRK
    /\ IdleMain
    /\ IdleItc
    /\ qa \in CoefVectors
    /\ qpt \in Points
    /\ qres = [err |-> "idle", q |-> NoVal, terms |-> <<>>]

CallQcalc ==
    /\ qres.err = "idle"
    /\ qres' = IF qcalc_raises(qpt)
               THEN [err |-> "ZeroDivisionError", q |-> NoVal, terms |-> <<>>]
               ELSE [err |-> "none", q |-> qcalc(qpt, qa),
                     terms |-> qterms(qpt, qa)]
    /\ UNCHANGED <<qa, qpt, rkvars, mainvars, itvars>>

NextQ == CallQcalc

SpecQ == InitQ /\ [][NextQ]_vars

----------------------------------------------------------------------------
(* One run of hmix.py on a bounded input file *)

\* the values of -d
DegreeVals == -1..5

\* the lines an input file is made of: a comment, a dilution by pure
\* component 1, one by pure component 2, a mixed injection, an empty ampoule,
\* an empty injection, a negative ampoule amount, a negative injection
LineInputs ==
    { [comment |-> TRUE,  tok |-> <<0, 0, 0, 0, 0>>],
      [comment |-> FALSE, tok |-> <<1, 0, 1000, 0, 3>>],
      [comment |-> FALSE, tok |-> <<1, 1, 0, 1000, -2>>],
      [comment |-> FALSE, tok |-> <<1, 1, 1000, 1000, 1>>],
      [comment |-> FALSE, tok |-> <<0, 0, 1000, 0, 1>>],
      [comment |-> FALSE, tok |-> <<1, 1, 0, 0, 1>>],
      [comment |-> FALSE, tok |-> <<-3, 1, 1000, 0, 2>>],
      [comment |-> FALSE, tok |-> <<1, 1, -1000, 0, 5>>] }

\* every input file ends with these four data lines, so that a fit of
\* degree 3 has as many points as free parameters, and one of degree 4 has
\* when a fifth data line precedes them
BaseLines ==
    << [comment |-> FALSE, tok |-> <<1, 0, 1000, 0, 3>>],
       [comment |-> FALSE, tok |-> <<1, 1, 0, 1000, -2>>],
       [comment |-> FALSE, tok |-> <<1, 1, 1000, 1000, 1>>],
       [comment |-> FALSE, tok |-> <<1, 0, 0, 1000, 4>>] >>

InputFiles ==
    UNION { {f \o BaseLines : f \in [1..n -> LineInputs]} : n \in 0..MaxLines }

\* the values a step of the optimizer gives a free parameter
FitVals == {2}

InitMain ==
    /\ IdleRK
    /\ IdleQ
    /\ IdleItc
    /\ pc = "start"
    /\ degree \in DegreeVals
    /\ infile \in InputFiles
    /\ opened = FALSE
    /\ itc = <<>>
    /\ main_x2 = <<>>
    /\ main_q = <<>>
    /\ vary = <<>>
    /\ params = <<>>
    /\ resid = <<>>
    /\ main_a = <<>>
    /\ qc = <<>>
    /\ exps = <<>>
    /\ curves = <<>>
    /\ written = {}
    /\ stdout = <<>>
    /\ err = "none"

\* lines 142-144: an out-of-range degree prints a message and exits
CheckDegree ==
    /\ pc = "start"
    /\ IF degree_rejected(degree)
       THEN /\ pc' = "rejected"
            /\ stdout' = Append(stdout, "choose RK degree up to 4")
       ELSE /\ pc' = "checked"
            /\ UNCHANGED stdout
    /\ UNCHANGED <<degree, infile, opened, itc, main_x2, main_q, vary, params,
                   resid, main_a, qc, exps, curves, written, err>>
    /\ UNCHANGED <<rkvars, qvars, itvars>>

\* lines 155-162: read the file, fill x2 and q; the division of line 161
\* raises ZeroDivisionError at the first point with n1c + n2c = 0
ReadItc ==
    /\ pc = "checked"
    /\ opened' = TRUE
    /\ LET pts == readitc(infile, Len(infile))
       IN  /\ itc' = pts
           /\ IF \E i \in 1..Len(pts) : RIsZero(RAdd(pts[i].n1c, pts[i].n2c))
              THEN /\ pc' = "crashed"
                   /\ err' = "ZeroDivisionError"
                   /\ UNCHANGED <<main_x2, main_q>>
              ELSE /\ pc' = "read"
                   /\ main_x2' = [i \in 1..Len(pts) |->
                                     RDiv(pts[i].n2c, RAdd(pts[i].n1c, pts[i].n2c))]
                   /\ main_q' = [i \in 1..Len(pts) |-> pts[i].q]
                   /\ UNCHANGED err
    /\ UNCHANGED <<degree, infile, vary, params, resid, main_a, qc, exps,
                   curves, written, stdout>>
    /\ UNCHANGED <<rkvars, qvars, itvars>>

\* lines 164-173: the vary flags and the five parameters, all at 0.0
SetupParams ==
    /\ pc = "read"
    /\ vary' = vary_of(degree)
    /\ params' = [i \in 0..4 |-> Zero]
    /\ pc' = "params"
    /\ UNCHANGED <<degree, infile, opened, itc, main_x2, main_q, resid, main_a,
                   qc, exps, curves, written, stdout, err>>
    /\ UNCHANGED <<rkvars, qvars, itvars>>

\* line 175, minimize is entered: it evaluates qfit at the start values (a
\* ZeroDivisionError of qcalc ends the run), and the least-squares driver
\* raises TypeError when there are fewer residuals than free parameters
MinimizeStart ==
    /\ pc = "params"
    /\ IF qfit_raises(itc)
       THEN /\ pc' = "crashed"
            /\ err' = "ZeroDivisionError"
            /\ UNCHANGED resid
       ELSE IF nfree(vary) > Len(main_q)
       THEN /\ pc' = "crashed"
            /\ err' = "TypeError"
            /\ resid' = qfit(params, itc, main_q)
       ELSE /\ pc' = "fit"
            /\ resid' = qfit(params, itc, main_q)
            /\ UNCHANGED err
    /\ UNCHANGED <<degree, infile, opened, itc, main_x2, main_q, vary, params,
                   main_a, qc, exps, curves, written, stdout>>
    /\ UNCHANGED <<rkvars, qvars, itvars>>

\* line 175, one step of the optimizer: it changes the value of a parameter
\* that has vary = True (the residuals of the trial vectors are not kept)
MinimizeStep ==
    /\ pc = "fit"
    /\ \E i \in 0..4 : \E v \in FitVals :
         /\ vary[i]
         /\ params' = [params EXCEPT ![i] = Flt(v)]
    /\ UNCHANGED <<pc, degree, infile, opened, itc, main_x2, main_q, vary, resid,
                   main_a, qc, exps, curves, written, stdout, err>>
    /\ UNCHANGED <<rkvars, qvars, itvars>>

\* lines 175-184: minimize returns, the report is printed and a is read from
\* result.params
MinimizeReturn ==
    /\ pc = "fit"
    /\ main_a' = [i \in 0..4 |-> params[i]]
    /\ stdout' = Append(stdout, "fit_report")
    /\ pc' = "fitted"
    /\ UNCHANGED <<degree, infile, opened, itc, main_x2, main_q, vary, params,
                   resid, qc, exps, curves, written, err>>
    /\ UNCHANGED <<rkvars, qvars, itvars>>

\* lines 186-196: qc and the file <fname>_q.out
WriteQ ==
    /\ pc = "fitted"
    /\ qc' = [i \in 1..Len(itc) |-> qcalc(itc[i], main_a)]
    /\ written' = written \cup {"_q.out"}
    /\ stdout' = Append(stdout, "calculated heats")
    /\ pc' = "qout"
    /\ UNCHANGED <<degree, infile, opened, itc, main_x2, main_q, vary, params,
                   resid, main_a, exps, curves, err>>
    /\ UNCHANGED <<rkvars, qvars, itvars>>

\* lines 206-229: the experimental partial molar enthalpies and the files
\* <fname>_h1.out, <fname>_h2.out
WriteH ==
    /\ pc = "qout"
    /\ exps' = exp_lists(itc, main_x2, Len(itc))
    /\ written' = written \cup {"_h1.out", "_h2.out"}
    /\ stdout' = Append(stdout, "experimental partial molar h")
    /\ pc' = "hout"
    /\ UNCHANGED <<degree, infile, opened, itc, main_x2, main_q, vary, params,
                   resid, main_a, qc, curves, err>>
    /\ UNCHANGED <<rkvars, qvars, itvars>>

\* lines 234-249: the fitted curves on the grid and the file <fname>_hrk.out
WriteHrk ==
    /\ pc = "hout"
    /\ LET x2rk == linspace01(nx)
       IN  curves' = [x2rk |-> x2rk,
                      h1fit |-> [i \in 1..nx |-> h1rk(RSub(One, x2rk[i]), main_a)],
                      h2fit |-> [i \in 1..nx |-> h2rk(x2rk[i], main_a)],
                      he |-> [i \in 1..nx |-> herk2(x2rk[i], main_a)]]
    /\ written' = written \cup {"_hrk.out"}
    /\ stdout' = Append(stdout, "calculated partial molar and excess H")
    /\ pc' = "done"
    /\ UNCHANGED <<degree, infile, opened, itc, main_x2, main_q, vary, params,
                   resid, main_a, qc, exps, err>>
    /\ UNCHANGED <<rkvars, qvars, itvars>>

NextMain ==
    \/ CheckDegree
    \/ ReadItc
    \/ SetupParams
    \/ MinimizeStart
    \/ MinimizeStep
    \/ MinimizeReturn
    \/ WriteQ
    \/ WriteH
    \/ WriteHrk

SpecMain == InitMain /\ [][NextMain]_vars

----------------------------------------------------------------------------
(* One call of itcfile.py readitc on a bounded input file *)

\* line 2 and line 3 of an input file, as [word, nums]
AmpLines ==
    { [word |-> <<"a", "m", "p", "o", "u", "l", "e", ":">>, nums |-> <<Rat(1, 100), Zero>>],
      [word |-> <<"a", "m", "p">>, nums |-> <<Rat(1, 200), Rat(1, 100)>>],
      [word |-> <<"a", "m", "p">>, nums |-> <<Rat(1, 100)>>],
      [word |-> <<"c", "e", "l", "l">>, nums |-> <<Rat(1, 100), Zero>>] }

DisLines ==
    { [word |-> <<"d", "i", "s", "p", "e", "n", "s", "e", "r", ":">>,
       nums |-> <<Zero, One, Flt(10), Flt(10)>>],
      [word |-> <<"d", "i", "s">>, nums |-> <<Rat(1, 4), Rat(3, 4), Flt(55), Flt(8)>>],
      [word |-> <<"d", "i", "s">>, nums |-> <<One, Zero, Flt(10)>>],
      [word |-> <<"d", "i">>, nums |-> <<Zero, One, Flt(10), Flt(10)>>] }

\* the lines after line 3: a comment, or a data line with the heat q
BodyLines ==
    { [comment |-> TRUE, q |-> Zero],
      [comment |-> FALSE, q |-> Rat(-3, 2)],
      [comment |-> FALSE, q |-> Flt(2)] }

ItcFiles ==
    [amp : AmpLines, dis : DisLines,
     body : UNION { [1..n -> BodyLines] : n \in 0..MaxBody }]

InitItc ==
    /\ IdleRK
    /\ IdleQ
    /\ IdleMain
    /\ it_pc = "start"
    /\ it_file \in ItcFiles
    /\ it_pos = 0
    /\ it_i = 0
    /\ it_amp = <<>>
    /\ it_dis = <<>>
    /\ it_itc = <<>>

\* lines 11-31: the title, the ampoule line and the dispenser line; a line
\* that fails its test prints an error and exits
ReadHeader ==
    /\ it_pc = "start"
    /\ IF ~amp_ok(it_file.amp)
       THEN /\ it_pc' = "exit"
            /\ UNCHANGED <<it_amp, it_dis, it_i>>
       ELSE IF ~dis_ok(it_file.dis)
       THEN /\ it_pc' = "exit"
            /\ it_amp' = <<it_file.amp.nums[1], it_file.amp.nums[2]>>
            /\ UNCHANGED <<it_dis, it_i>>
       ELSE /\ it_pc' = "loop"
            /\ it_amp' = <<it_file.amp.nums[1], it_file.amp.nums[2]>>
            /\ it_dis' = [x1d |-> it_file.dis.nums[1], x2d |-> it_file.dis.nums[2],
                          rhod |-> it_file.dis.nums[3], vd |-> it_file.dis.nums[4]]
            /\ it_i' = 1
    /\ UNCHANGED <<it_file, it_pos, it_itc>>
    /\ UNCHANGED <<rkvars, qvars, mainvars>>

\* lines 33-37: a line starting with '#' is skipped
SkipComment ==
    /\ it_pc = "loop"
    /\ it_pos < Len(it_file.body)
    /\ it_file.body[it_pos + 1].comment
    /\ it_pos' = it_pos + 1
    /\ UNCHANGED <<it_pc, it_file, it_i, it_amp, it_dis, it_itc>>
    /\ UNCHANGED <<rkvars, qvars, mainvars>>

\* lines 33-52: a data line appends one point and advances the ampoule
\* amounts and the counter
ReadPoint ==
    /\ it_pc = "loop"
    /\ it_pos < Len(it_file.body)
    /\ ~it_file.body[it_pos + 1].comment
    /\ LET n1d == dispensed(it_i, it_dis.x1d, it_dis.rhod, it_dis.vd)
           n2d == dispensed(it_i, it_dis.x2d, it_dis.rhod, it_dis.vd)
       IN  /\ it_itc' = Append(it_itc,
                               [n1c |-> it_amp[1], n2c |-> it_amp[2],
                                n1d |-> n1d, n2d |-> n2d,
                                q |-> it_file.body[it_pos + 1].q])
           /\ it_amp' = <<RAdd(it_amp[1], n1d), RAdd(it_amp[2], n2d)>>
    /\ it_i' = it_i + 1
    /\ it_pos' = it_pos + 1
    /\ UNCHANGED <<it_pc, it_file, it_dis>>
    /\ UNCHANGED <<rkvars, qvars, mainvars>>

\* lines 33-35 and 53: at the end of the file the loop ends and itc is
\* returned
ReturnItc ==
    /\ it_pc = "loop"
    /\ it_pos = Len(it_file.body)
    /\ it_pc' = "returned"
    /\ UNCHANGED <<it_file, it_pos, it_i, it_amp, it_dis, it_itc>>
    /\ UNCHANGED <<rkvars, qvars, mainvars>>

NextItc == ReadHeader \/ SkipComment \/ ReadPoint \/ ReturnItc

SpecItc == InitItc /\ [][NextItc]_vars

----------------------------------------------------------------------------
(* C1: Gibbs-Duhem consistency. Once h1rk(x1, a), h2rk(x2, a) and          *)
(* herk2(x2, a) have been evaluated for x1 = 1 - x2, x1*h1 + x2*h2 equals  *)
(* he exactly.                                                             *)
C1_GibbsDuhem ==
    (vH1rk # NoVal /\ vH2rk # NoVal /\ vHerk2 # NoVal) =>
        RAdd(RMul(RSub(One, fx2), vH1rk), RMul(fx2, vH2rk)) = vHerk2

C1_Witness ==
    /\ vH1rk # NoVal /\ vH2rk # NoVal /\ vHerk2 # NoVal
    /\ ~RIsZero(vHerk2)
    /\ ~RIsZero(fa[3]) /\ ~RIsZero(fa[4])
    /\ fx2 # Rat(1, 2)

(* C2: mirror symmetry. herk2(x2, a) equals herk1(1 - x2, a), and with     *)
(* a = [a0, 0, 0, 0, 0] both equal a0 * x2 * (1 - x2).                     *)
C2_Mirror ==
    /\ (vHerk2 # NoVal /\ vHerk1 # NoVal) => vHerk2 = vHerk1
    /\ \A i \in {"herk2", "herk1"} :
         LET v == IF i = "herk2" THEN vHerk2 ELSE vHerk1
         IN  (v # NoVal /\ \A k \in 1..4 : RIsZero(fa[k])) =>
                 v = RMul(fa[0], RMul(fx2, RSub(One, fx2)))

C2_Witness ==
    /\ vHerk2 # NoVal /\ vHerk1 # NoVal
    /\ ~RIsZero(vHerk2)
    /\ ~RIsZero(fa[1]) /\ ~RIsZero(fa[3])
    /\ fx2 # Rat(1, 2)

PureDilution2 == RIsZero(qpt.n1d) /\ RPos(qpt.n2d) /\ RPos(RAdd(qpt.n1c, qpt.n2c))
PureDilution1 == RIsZero(qpt.n2d) /\ RPos(qpt.n1d) /\ RPos(RAdd(qpt.n1c, qpt.n2c))

(* C3 as stated: for a pure component-2 dilution (n1d = 0, n2d > 0,        *)
(* n1c + n2c > 0) qcalc returns only the two h2 terms,                     *)
(* n2d*(h2(x2cf) - h2(x2d)) + n2c*(h2(x2cf) - h2(x2ci)).                   *)
C3_OnlyH2Terms ==
    (qres.err # "idle" /\ PureDilution2) =>
        /\ qres.err = "none"
        /\ qres.q = RAdd(RMul(qpt.n2d, RSub(h2rk(x2cf(qpt), qa), h2rk(x2d(qpt), qa))),
                         RMul(qpt.n2c, RSub(h2rk(x2cf(qpt), qa), h2rk(x2ci(qpt), qa))))

(* C3 amended: for a pure component-2 dilution only the injected h1 term   *)
(* drops out; qcalc returns n1c*(h1(x1cf) - h1(x1ci)) plus the two h2      *)
(* terms.                                                                  *)
C3_PureDilution ==
    (qres.err # "idle" /\ PureDilution2) =>
        /\ qres.err = "none"
        /\ qres.q =
             RAdd(RAdd(RMul(qpt.n1c, RSub(h1rk(x1cf(qpt), qa), h1rk(x1ci(qpt), qa))),
                       RMul(qpt.n2d, RSub(h2rk(x2cf(qpt), qa), h2rk(x2d(qpt), qa)))),
                  RMul(qpt.n2c, RSub(h2rk(x2cf(qpt), qa), h2rk(x2ci(qpt), qa))))

C3_Witness ==
    /\ qres.err = "none" /\ PureDilution2
    /\ RPos(qpt.n1c) /\ RIsZero(qpt.n2c)
    /\ ~RIsZero(qres.terms[2])
    /\ ~RIsZero(qa[0]) /\ RIsZero(qa[1])

(* C4 as stated, on points whose ampoule is not empty (n1c + n2c > 0): for *)
(* n1d = 0 and n2d > 0 the first and the third term of the predicted heat  *)
(* are both zero and no division by zero is evaluated; symmetrically for   *)
(* n2d = 0 and n1d > 0.                                                    *)
C4_TermsVanish ==
    /\ (qres.err # "idle" /\ PureDilution2) =>
          /\ qres.err = "none"
          /\ RIsZero(qres.terms[1]) /\ RIsZero(qres.terms[3])
    /\ (qres.err # "idle" /\ PureDilution1) =>
          /\ qres.err = "none"
          /\ RIsZero(qres.terms[3]) /\ RIsZero(qres.terms[1])

(* C4 amended: for n1d = 0, n2d > 0 and n1c + n2c > 0 no division raises,  *)
(* the dispenser fraction x2d is exactly 1, the first term is zero and the *)
(* third term is n2d*h2rk(x2cf, a) (h2rk(x2d, a) = 0, the term itself does *)
(* not vanish); symmetrically for n2d = 0, n1d > 0: x1d = 1, the third     *)
(* term is zero and the first is n1d*h1rk(x1cf, a).                        *)
C4_ZeroInjection ==
    /\ (qres.err # "idle" /\ PureDilution2) =>
          /\ qres.err = "none"
          /\ x2d(qpt) = One
          /\ RIsZero(qres.terms[1])
          /\ qres.terms[3] = RMul(qpt.n2d, h2rk(x2cf(qpt), qa))
    /\ (qres.err # "idle" /\ PureDilution1) =>
          /\ qres.err = "none"
          /\ x1d(qpt) = One
          /\ RIsZero(qres.terms[3])
          /\ qres.terms[1] = RMul(qpt.n1d, h1rk(x1cf(qpt), qa))

C4_Witness ==
    /\ qres.err = "none" /\ PureDilution2
    /\ ~RIsZero(qres.terms[3])
    /\ RPos(qpt.n1c) /\ RPos(qpt.n2c)

----------------------------------------------------------------------------
Malformed(pt) == ~RPos(RAdd(pt.n1c, pt.n2c)) \/ ~RPos(RAdd(pt.n1d, pt.n2d))

(* C5 as stated: when a point read from the input has n1c + n2c <= 0 or    *)
(* n1d + n2d <= 0 the run is aborted: the optimizer returns no result and  *)
(* no output file is written.                                              *)
C5_MalformedRejected ==
    (opened /\ \E i \in 1..Len(itc) : Malformed(itc[i])) =>
        /\ pc \notin {"fit", "fitted", "qout", "hout", "done"}
        /\ written = {}

\* C6, the states: what has not happened when the degree is out of range,
\* and what has when it is in range
C6_State ==
    /\ (degree < 0 \/ degree > 4) =>
          /\ pc \in {"start", "rejected"}
          /\ ~opened
          /\ itc = <<>> /\ params = <<>> /\ resid = <<>> /\ main_a = <<>>
          /\ written = {}
    /\ (degree >= 0 /\ degree <= 4) =>
          /\ pc # "rejected"
          /\ pc \notin {"start", "checked"} => opened

\* C6, the steps: an accepted degree leads to the read of the file
C6_Step ==
    /\ (pc = "start" /\ degree >= 0 /\ degree <= 4) => pc' = "checked"
    /\ pc = "checked" => (opened' /\ pc' \in {"read", "crashed"})

(* C6: a degree below 0 or above 4 ends the run before the input file is   *)
(* opened, before the parameters are set up and the optimizer is entered   *)
(* and before any output file is written; a degree in 0..4 is never        *)
(* rejected and the run goes on to read the file.                          *)
C6_DegreeFirst == []C6_State /\ [][C6_Step]_vars

C6_Witness ==
    /\ pc = "rejected"
    /\ degree = 5
    /\ stdout = <<"choose RK degree up to 4">>

(* C7: for a degree d in 0..4 the parameters that vary are exactly         *)
(* a0..ad, all five start at 0.0, and whatever steps the optimizer takes   *)
(* the coefficients a(d+1)..a4 of the result, which the per-point table    *)
(* and the fitted curves use, are 0.0.                                     *)
C7_DegreeClamp ==
    (pc \in {"params", "fit", "fitted", "qout", "hout", "done"}) =>
        /\ \A i \in 0..4 : vary[i] <=> i <= degree
        /\ nfree(vary) = degree + 1
        /\ pc = "params" => \A i \in 0..4 : params[i] = Zero
        /\ \A i \in 0..4 : i > degree => params[i] = Zero
        /\ pc \in {"fitted", "qout", "hout", "done"} =>
              \A i \in 0..4 : i > degree => main_a[i] = Zero

C7_Witness ==
    /\ pc = "done"
    /\ degree = 2
    /\ \A i \in 0..2 : ~RIsZero(main_a[i])
    /\ main_a[3] = Zero /\ main_a[4] = Zero

\* the indices of the points that are an h1 sample, and an h2 sample
H1Points == {i \in 1..Len(itc) : RPos(itc[i].n1d) /\ RIsZero(itc[i].n2d)}
H2Points == {i \in 1..Len(itc) : RPos(itc[i].n2d) /\ RIsZero(itc[i].n1d)}
\* the place of point i among the points of S, in input order
RankIn(S, i) == Cardinality({k \in S : k <= i})

(* C8: the experimental lists hold one h1 sample (x2ci, q/n1d) for each    *)
(* point with n1d > 0 and n2d = 0 and one h2 sample (x2ci, q/n2d) for each *)
(* point with n2d > 0 and n1d = 0, in the order of the points, and nothing *)
(* else; no point gives both.                                              *)
C8_ExpSamples ==
    (pc \in {"hout", "done"}) =>
        /\ H1Points \cap H2Points = {}
        /\ Len(exps.x1exp) = Cardinality(H1Points)
        /\ Len(exps.h1exp) = Cardinality(H1Points)
        /\ Len(exps.x2exp) = Cardinality(H2Points)
        /\ Len(exps.h2exp) = Cardinality(H2Points)
        /\ \A i \in H1Points :
             /\ exps.x1exp[RankIn(H1Points, i)] =
                    RDiv(itc[i].n2c, RAdd(itc[i].n1c, itc[i].n2c))
             /\ exps.h1exp[RankIn(H1Points, i)] = RDiv(itc[i].q, itc[i].n1d)
        /\ \A i \in H2Points :
             /\ exps.x2exp[RankIn(H2Points, i)] =
                    RDiv(itc[i].n2c, RAdd(itc[i].n1c, itc[i].n2c))
             /\ exps.h2exp[RankIn(H2Points, i)] = RDiv(itc[i].q, itc[i].n2d)

C8_Witness ==
    /\ pc = "hout"
    /\ Len(exps.h1exp) = 2 /\ Len(exps.h2exp) = 2
    /\ exps.h1exp[1] # exps.h1exp[2]
    /\ \E i \in 1..Len(itc) : RPos(itc[i].n1d) /\ RPos(itc[i].n2d)

(* C9: whatever coefficients the fit returned, herk2(0, a), herk2(1, a),   *)
(* h1rk(1, a) and h2rk(1, a) are 0, and in the fitted curves the first     *)
(* grid row (x2 = 0) has h1 = 0 and he = 0 and the last grid row (x2 = 1)  *)
(* has h2 = 0 and he = 0.                                                  *)
C9_PureLimits ==
    (pc = "done") =>
        /\ herk2(Zero, main_a) = Zero /\ herk2(One, main_a) = Zero
        /\ h1rk(One, main_a) = Zero /\ h2rk(One, main_a) = Zero
        /\ Len(curves.x2rk) = nx
        /\ curves.x2rk[1] = Zero
        /\ curves.h1fit[1] = Zero /\ curves.he[1] = Zero
        /\ curves.x2rk[nx] = One
        /\ curves.h2fit[nx] = Zero /\ curves.he[nx] = Zero

C9_Witness ==
    /\ pc = "done"
    /\ \A i \in 0..4 : ~RIsZero(main_a[i])
    /\ ~RIsZero(curves.h2fit[1]) /\ ~RIsZero(curves.h1fit[nx])
    /\ ~RIsZero(curves.he[2])

----------------------------------------------------------------------------
\* the data lines among the first n lines after line 3, in file order
RECURSIVE DataLines(_, _)
DataLines(body, n) ==
    IF n = 0 THEN <<>>
    ELSE IF body[n].comment THEN DataLines(body, n - 1)
         ELSE Append(DataLines(body, n - 1), body[n])

\* the sum of field f over the first k points
RECURSIVE SumField(_, _, _)
SumField(pts, f, k) == IF k = 0 THEN Zero ELSE RAdd(SumField(pts, f, k - 1), pts[k][f])

(* C10: in itcfile.py readitc one point is emitted per data line, in file  *)
(* order, comment lines emit nothing and do not advance the counter; the   *)
(* k-th point has n1d = k*x1d*rhod*vd*1e-6 and n2d = k*x2d*rhod*vd*1e-6    *)
(* and its n1c (n2c) is the amount of line 2 plus the n1d (n2d) of all     *)
(* points before it.                                                       *)
C10_Accumulation ==
    (it_pc \in {"loop", "returned"}) =>
        LET data == DataLines(it_file.body, it_pos)
            unit == RMul(RMul(it_file.dis.nums[3], it_file.dis.nums[4]), Micro)
        IN  /\ Len(it_itc) = Len(data)
            /\ it_i = Len(it_itc) + 1
            /\ it_pc = "returned" => it_pos = Len(it_file.body)
            /\ \A k \in 1..Len(it_itc) :
                 /\ it_itc[k].q = data[k].q
                 /\ it_itc[k].n1d = RMul(Flt(k), RMul(it_file.dis.nums[1], unit))
                 /\ it_itc[k].n2d = RMul(Flt(k), RMul(it_file.dis.nums[2], unit))
                 /\ it_itc[k].n1c =
                        RAdd(it_file.amp.nums[1], SumField(it_itc, "n1d", k - 1))
                 /\ it_itc[k].n2c =
                        RAdd(it_file.amp.nums[2], SumField(it_itc, "n2d", k - 1))

C10_Witness ==
    /\ it_pc = "returned"
    /\ Len(it_itc) = 2
    /\ Len(it_file.body) = 3
    /\ it_file.body[2].comment
    /\ RPos(it_itc[2].n1d) /\ RPos(it_itc[2].n2d)
    /\ it_itc[1].q # it_itc[2].q

====
